---- MODULE Spec2Model ----
(***************************************************************************)
(* The image-query pipeline of the AI medical chatbot, in its two          *)
(* front-ends: the FastAPI handler upload_and_query (src/app.py) and the   *)
(* script function process_image with its __main__ block (src/main.py).   *)
(* Python values that cross the wire are modelled as tagged JSON values,   *)
(* Python exceptions as the failing branch of a result record.             *)
(***************************************************************************)
EXTENDS Integers, Sequences, FiniteSets, TLC

VARIABLES web, cli

vars == <<web, cli>>

\* ---------------------------------------------------------------- bounds
\* Number of /upload_and_query requests that may be in progress at once.
NumReqs == 2

Reqs == 1..NumReqs

\* ------------------------------------------------------ program constants
GROQ_API_URL == "https://api.groq.com/openai/v1/chat/completions"

VISION_MODEL == "meta-llama/llama-4-scout-17b-16e-instruct"

\* os.getenv("GROQ_API_KEY"); the module refuses to load when it is unset.
GROQ_API_KEY == "gsk-configured-key"

MAX_TOKENS == 1000

TIMEOUT == 30

\* The path the __main__ block of main.py passes to process_image.
image_path == "test2.jpg"

\* ------------------------------------------------------------ JSON values
JNull == [t |-> "null"]

JStr(s) == [t |-> "str", s |-> s]

JNum(n) == [t |-> "num", n |-> n]

JList(l) == [t |-> "list", items |-> l]

JObj(f) == [t |-> "obj", m |-> f]

\* The empty dict {}.
EmptyDict == JObj([k \in {} |-> JNull])

\* A response body that is not JSON at all (an HTML error page, say).
RawBody == [t |-> "raw"]

\* --------------------------------------------- Python evaluation results
Ok(v) == [ok |-> TRUE, v |-> v]

Raise(type, msg) == [ok |-> FALSE, exc |-> type, msg |-> msg]

\* Sequencing of two evaluations: the second runs only if the first did not raise.
Then(r, F(_)) == IF r.ok THEN F(r.v) ELSE r

TypeName(v) ==
    CASE v.t = "null" -> "NoneType"
      [] v.t = "str"  -> "str"
      [] v.t = "num"  -> "int"
      [] v.t = "list" -> "list"
      [] v.t = "obj"  -> "dict"

\* v[k] for a string key k.
PyGetItem(v, k) ==
    CASE v.t = "obj"  -> IF k \in DOMAIN v.m THEN Ok(v.m[k])
                         ELSE Raise("KeyError", "'" \o k \o "'")
      [] v.t = "list" -> Raise("TypeError", "list indices must be integers or slices, not str")
      [] v.t = "str"  -> Raise("TypeError", "string indices must be integers")
      [] v.t \in {"null", "num"} ->
             Raise("TypeError", "'" \o TypeName(v) \o "' object is not subscriptable")

\* v[0]
PyIndex0(v) ==
    CASE v.t = "list" -> IF Len(v.items) > 0 THEN Ok(v.items[1])
                         ELSE Raise("IndexError", "list index out of range")
      [] v.t = "obj"  -> Raise("KeyError", "0")
      [] v.t \in {"null", "num"} ->
             Raise("TypeError", "'" \o TypeName(v) \o "' object is not subscriptable")

\* v.get(k, default)
PyGet(v, k, default) ==
    IF v.t = "obj"
    THEN Ok(IF k \in DOMAIN v.m THEN v.m[k] ELSE default)
    ELSE Raise("AttributeError", "'" \o TypeName(v) \o "' object has no attribute 'get'")

\* v[:100]; only whether it raises matters to the caller (the value is logged).
PySlice100(v) ==
    CASE v.t \in {"str", "list"} -> Ok(v)
      [] v.t \in {"null", "num"} ->
             Raise("TypeError", "'" \o TypeName(v) \o "' object is not subscriptable")

\* str(v), as an f-string formats it.
PyStr(v) ==
    CASE v.t = "str"  -> v.s
      [] v.t = "null" -> "None"
      [] v.t = "num"  -> ToString(v.n)

\* response.json()
ResponseJson(body) ==
    IF body.t = "raw"
    THEN Raise("JSONDecodeError", "Expecting value: line 1 column 1 (char 0)")
    ELSE Ok(body)

\* ----------------------------------------------------------------- base64
B64Chars ==
    << "A","B","C","D","E","F","G","H","I","J","K","L","M","N","O","P",
       "Q","R","S","T","U","V","W","X","Y","Z","a","b","c","d","e","f",
       "g","h","i","j","k","l","m","n","o","p","q","r","s","t","u","v",
       "w","x","y","z","0","1","2","3","4","5","6","7","8","9","+","/" >>

B64(n) == B64Chars[n + 1]

\* base64.b64encode(bytes).decode("utf-8")
RECURSIVE b64encode(_)
b64encode(bs) ==
    IF Len(bs) = 0 THEN ""
    ELSE IF Len(bs) = 1 THEN
        B64(bs[1] \div 4) \o B64((bs[1] % 4) * 16) \o "=="
    ELSE IF Len(bs) = 2 THEN
        B64(bs[1] \div 4) \o B64((bs[1] % 4) * 16 + bs[2] \div 16)
            \o B64((bs[2] % 16) * 4) \o "="
    ELSE
        B64(bs[1] \div 4) \o B64((bs[1] % 4) * 16 + bs[2] \div 16)
            \o B64((bs[2] % 16) * 4 + bs[3] \div 64) \o B64(bs[3] % 64)
            \o b64encode(SubSeq(bs, 4, Len(bs)))

\* ------------------------------------------------------------------ inputs
\* Image payloads: the empty upload and one payload for each base64 tail.
Images == { <<>>, <<71>>, <<137, 80>>, <<255, 216, 255>>, <<71, 73, 70, 56>> }

Queries == { "what is shown?", "describe the scan" }

\* What Image.open(...) followed by img.verify() does with the bytes: Pillow
\* decides; it never identifies an empty stream.
PilFailTexts == { "cannot identify image file", "broken PNG file" }

PilOk == [ok |-> TRUE, msg |-> ""]

PilOutcomes(bytes) ==
    IF bytes = <<>>
    THEN { [ok |-> FALSE, msg |-> "cannot identify image file"] }
    ELSE { PilOk } \cup { [ok |-> FALSE, msg |-> m] : m \in PilFailTexts }

\* ------------------------------------------------------- remote behaviour
\* str(e) of a requests exception; urllib3 words it, not this program.
ExcTexts == { "Read timed out. (read timeout=30)", "Max retries exceeded with url" }

Statuses == { 200, 404, 429 }

ChoicesBody(content) ==
    JObj("choices" :> JList(<< JObj("message" :> JObj("content" :> content)) >>))

ErrorBody(e) == JObj("error" :> e)

Contents == { JStr("X"), JStr(""), JNull, JNum(7) }

Bodies ==
    { ChoicesBody(c) : c \in Contents }
    \cup { JObj("choices" :> JList(<<>>)), EmptyDict, JList(<<>>), RawBody,
           ErrorBody(JObj("message" :> JStr("model not found"))),
           ErrorBody(JObj("message" :> JStr("rate limit reached"))),
           ErrorBody(EmptyDict),
           ErrorBody(JStr("bad gateway")) }

\* What requests.post(..., timeout=30) does: raise Timeout, raise another
\* RequestException, or return a response.
Remotes ==
    { [kind |-> "timeout", msg |-> m] : m \in ExcTexts }
    \cup { [kind |-> "transport", msg |-> m] : m \in ExcTexts }
    \cup { [kind |-> "response", status |-> s, body |-> b] : s \in Statuses, b \in Bodies }

NoRemote == [kind |-> "none"]

\* ------------------------------------------------------- outbound payload
DataUri(encoded_image) == "data:image/jpeg;base64," \o encoded_image

\* The messages list upload_and_query builds.
WebMessages(query, encoded_image) ==
    << [role |-> "user",
        content |-> << [type |-> "text", text |-> query],
                       [type |-> "image_url",
                        image_url |-> [url |-> DataUri(encoded_image)]] >>] >>

\* The arguments upload_and_query passes to requests.post.
WebPostCall(query, encoded_image) ==
    [url |-> GROQ_API_URL,
     json |-> [model |-> VISION_MODEL,
               messages |-> WebMessages(query, encoded_image),
               max_tokens |-> MAX_TOKENS],
     headers |-> [Authorization |-> "Bearer " \o GROQ_API_KEY,
                  ContentType |-> "application/json"],
     timeout |-> TIMEOUT]

\* The messages list process_image builds.
CliMessages(query, encoded_image) ==
    << [role |-> "user",
        content |-> << [type |-> "text", text |-> query],
                       [type |-> "image_url",
                        image_url |-> [url |-> DataUri(encoded_image)]] >>] >>

\* The arguments process_image passes to requests.post.
CliPostCall(query, encoded_image) ==
    [url |-> GROQ_API_URL,
     json |-> [model |-> VISION_MODEL,
               messages |-> CliMessages(query, encoded_image),
               max_tokens |-> MAX_TOKENS],
     headers |-> [Authorization |-> "Bearer " \o GROQ_API_KEY,
                  ContentType |-> "application/json"],
     timeout |-> TIMEOUT]

NoCall == [url |-> "none"]

\* ------------------------------------------------------------ web handler
\* raise HTTPException(status_code=..., detail=...)
RaiseHTTP(status_code, detail) ==
    [ok |-> FALSE, exc |-> "HTTPException", status_code |-> status_code, msg |-> detail]

\* What the client receives: a status and a one-entry JSON object.
JSONResponse(status_code, key, value) ==
    [status |-> status_code, body |-> (key :> value)]

NoResponse == [status |-> 0, body |-> ("pending" :> JNull)]

\* result["choices"][0]["message"]["content"]
ExtractAnswer(result) ==
    Then(PyGetItem(result, "choices"), LAMBDA a :
    Then(PyIndex0(a), LAMBDA b :
    Then(PyGetItem(b, "message"), LAMBDA c :
         PyGetItem(c, "content"))))

\* response.json().get("error", {}).get("message", "Unknown Groq API Error")
ExtractErrorDetail(body) ==
    Then(ResponseJson(body), LAMBDA a :
    Then(PyGet(a, "error", EmptyDict), LAMBDA b :
         PyGet(b, "message", JStr("Unknown Groq API Error"))))

\* requests.post(...) as seen by its caller: the response, or the exception.
RequestsPost(rm) ==
    CASE rm.kind = "timeout"   -> Raise("Timeout", rm.msg)
      [] rm.kind = "transport" -> Raise("ConnectionError", rm.msg)
      [] rm.kind = "response"  -> Ok(rm)

\* WebCheckImage with the verification result ignored.
WebCheckImageNoVerify(image_content, pil) ==
    IF image_content = <<>> THEN RaiseHTTP(400, "Empty file uploaded.")
    ELSE Ok(b64encode(image_content))

\* Steps 1-2 of upload_and_query: emptiness check, then open-and-verify.
WebCheckImage(image_content, pil) ==
    IF image_content = <<>> THEN RaiseHTTP(400, "Empty file uploaded.")
    ELSE IF ~pil.ok THEN RaiseHTTP(400, "Invalid image format: " \o pil.msg)
    ELSE Ok(b64encode(image_content))

\* Step 5 of upload_and_query, on the response requests.post returned.
WebProcessResponse(response) ==
    IF response.status = 200
    THEN Then(ResponseJson(response.body), LAMBDA result :
         Then(ExtractAnswer(result), LAMBDA answer :
              Ok(JSONResponse(200, VISION_MODEL, answer))))
    ELSE Then(ExtractErrorDetail(response.body), LAMBDA error_detail :
              RaiseHTTP(response.status, "Groq API Error: " \o PyStr(error_detail)))

\* WebOuterExcept with the catch-all clause tried first.
WebOuterExceptCatchAllFirst(res) ==
    IF res.ok THEN res
    ELSE RaiseHTTP(500, "Internal Server Error: " \o res.msg)

\* The two except clauses that close the handler's try block.
WebOuterExcept(res) ==
    IF res.ok \/ res.exc = "HTTPException" THEN res
    ELSE RaiseHTTP(500, "Internal Server Error: " \o res.msg)

\* FastAPI turns the handler's return value or exception into the response.
FastAPIResponse(res) ==
    IF res.ok THEN res.v
    ELSE IF res.exc = "HTTPException"
         THEN JSONResponse(res.status_code, "detail", JStr(res.msg))
         ELSE JSONResponse(500, "text", JStr("Internal Server Error"))

WebIdle ==
    [pc |-> "idle", image |-> <<>>, pil |-> PilOk, query |-> "",
     call |-> NoCall, posts |-> 0, remote |-> NoRemote, resp |-> NoResponse]

\* A multipart request reaches the route; the handler has not run yet.
WebReceive(r, bytes, pil, q) ==
    /\ web[r].pc = "idle"
    /\ web' = [web EXCEPT ![r] = [WebIdle EXCEPT !.pc = "start", !.image = bytes,
                                                 !.pil = pil, !.query = q]]
    /\ UNCHANGED cli

\* WebValidate with the query kept in a module-level variable that any
\* request in progress may have written last.
WebValidateSharedQuery(r) ==
    /\ web[r].pc = "start"
    /\ \E s \in Reqs :
        /\ web[s].pc # "idle"
        /\ LET checked == WebCheckImage(web[r].image, web[r].pil)
           IN  web' = [web EXCEPT ![r] =
                    IF checked.ok
                    THEN [@ EXCEPT !.pc = "post",
                                   !.call = WebPostCall(web[s].query, checked.v)]
                    ELSE [@ EXCEPT !.pc = "done",
                                   !.resp = FastAPIResponse(WebOuterExcept(checked))]]
    /\ UNCHANGED cli

\* Steps 1-3: read, emptiness check, encode, verify, build the messages.
WebValidate(r) ==
    /\ web[r].pc = "start"
    /\ LET checked == WebCheckImage(web[r].image, web[r].pil)
       IN  web' = [web EXCEPT ![r] =
                IF checked.ok
                THEN [@ EXCEPT !.pc = "post",
                               !.call = WebPostCall(web[r].query, checked.v)]
                ELSE [@ EXCEPT !.pc = "done",
                               !.resp = FastAPIResponse(WebOuterExcept(checked))]]
    /\ UNCHANGED cli

\* Step 4: requests.post sends the request and blocks.
WebPost(r) ==
    /\ web[r].pc = "post"
    /\ web' = [web EXCEPT ![r].pc = "wait", ![r].posts = @ + 1]
    /\ UNCHANGED cli

\* WebRespond with a second attempt after a timeout.
WebRespondRetry(r, rm) ==
    /\ web[r].pc = "wait"
    /\ LET res == Then(RequestsPost(rm), LAMBDA response : WebProcessResponse(response))
       IN  web' = [web EXCEPT ![r].pc = IF rm.kind = "timeout" THEN "post" ELSE "done",
                              ![r].remote = rm,
                              ![r].resp = FastAPIResponse(WebOuterExcept(res))]
    /\ UNCHANGED cli

\* requests.post returns or raises; step 5 and the two outer except clauses.
WebRespond(r, rm) ==
    /\ web[r].pc = "wait"
    /\ LET res == Then(RequestsPost(rm), LAMBDA response : WebProcessResponse(response))
       IN  web' = [web EXCEPT ![r].pc = "done", ![r].remote = rm,
                              ![r].resp = FastAPIResponse(WebOuterExcept(res))]
    /\ UNCHANGED cli

\* The response has been sent; the handler's locals are gone.
WebClose(r) ==
    /\ web[r].pc = "done"
    /\ web' = [web EXCEPT ![r] = WebIdle]
    /\ UNCHANGED cli

\* ----------------------------------------------------------- CLI pipeline
\* What open(image_path, "rb") and read() find: no file, a file that cannot
\* be opened, or the file's bytes.
Files ==
    { [fs |-> "missing", bytes |-> <<>>], [fs |-> "denied", bytes |-> <<>>] }
    \cup { [fs |-> "ok", bytes |-> b] : b \in Images }

\* The dict process_image returns: one key, one value.
CliAnswer(answer) == VISION_MODEL :> answer

CliError(msg) == "error" :> JStr(msg)

NoResult == "pending" :> JNull

\* with open(image_path, "rb") as image_file: image_file.read()
CliOpen(fs, bytes) ==
    CASE fs = "missing" -> Raise("FileNotFoundError",
                                 "[Errno 2] No such file or directory: '" \o image_path \o "'")
      [] fs = "denied"  -> Raise("PermissionError",
                                 "[Errno 13] Permission denied: '" \o image_path \o "'")
      [] fs = "ok"      -> Ok(bytes)

\* Whether exception class exc derives from requests.exceptions.RequestException.
\* jsonErrIsRequestException: the installed requests raises its own
\* JSONDecodeError from response.json() (newer releases) or lets the json
\* module's ValueError through (older ones).
IsRequestException(exc, jsonErrIsRequestException) ==
    \/ exc \in {"Timeout", "ConnectionError"}
    \/ exc = "JSONDecodeError" /\ jsonErrIsRequestException

\* Step 5 of process_image, on the response requests.post returned.
CliProcessResponse(response) ==
    IF response.status = 200
    THEN Then(ResponseJson(response.body), LAMBDA result :
         Then(ExtractAnswer(result), LAMBDA answer :
         Then(PySlice100(answer), LAMBDA logged :
              Ok(CliAnswer(answer)))))
    ELSE Ok(CliError("Error from Groq API: " \o ToString(response.status)))

\* CliInnerExcept with the RequestException clause tried before the Timeout one.
CliInnerExceptSwapped(res, jsonErrIsRequestException) ==
    IF res.ok THEN res
    ELSE IF IsRequestException(res.exc, jsonErrIsRequestException)
         THEN Ok(CliError("Network error: " \o res.msg))
    ELSE res

\* The except clauses of the try block around requests.post.
CliInnerExcept(res, jsonErrIsRequestException) ==
    IF res.ok THEN res
    ELSE IF res.exc = "Timeout" THEN Ok(CliError("Request timed out."))
    ELSE IF IsRequestException(res.exc, jsonErrIsRequestException)
         THEN Ok(CliError("Network error: " \o res.msg))
    ELSE res

\* CliOuterExcept without the final except Exception clause.
CliOuterExceptNoCatchAll(res) ==
    IF res.ok THEN res
    ELSE IF res.exc = "FileNotFoundError"
         THEN Ok(CliError("Image file not found: " \o image_path))
    ELSE res

\* The except clauses of the outer try block of process_image.
CliOuterExcept(res) ==
    IF res.ok THEN res
    ELSE IF res.exc = "FileNotFoundError"
         THEN Ok(CliError("Image file not found: " \o image_path))
    ELSE Ok(CliError("An unexpected error occurred : " \o res.msg))

\* The lines the __main__ block prints for a returned result.
CliPrinted(result) ==
    << "\n--- Groq Vision API Response ---" >>
    \o (IF "error" \notin DOMAIN result
        THEN << "Model: " \o VISION_MODEL,
                "Answer:\n" \o PyStr(result[VISION_MODEL]) >>
        ELSE << "Operation failed with error: " \o PyStr(result["error"]) >>)
    \o << "--------------------------------\n" >>

CliIdle ==
    [pc |-> "idle", fs |-> "ok", image |-> <<>>, pil |-> PilOk, query |-> "",
     call |-> NoCall, posts |-> 0, remote |-> NoRemote,
     result |-> NoResult, stdout |-> <<>>]

\* process_image ends: it returns res.v, or the exception escapes to __main__.
CliFinish(c, res) ==
    IF res.ok THEN [c EXCEPT !.pc = "returned", !.result = res.v]
    ELSE [c EXCEPT !.pc = "crashed"]

\* The __main__ block calls process_image(image_path, query).
CliStart(file, pil, q) ==
    /\ cli.pc = "idle"
    /\ cli' = [CliIdle EXCEPT !.pc = "start", !.fs = file.fs, !.image = file.bytes,
                              !.pil = pil, !.query = q]
    /\ UNCHANGED web

\* Steps 1-3: open and read the file, encode, verify, build the messages.
CliValidate ==
    /\ cli.pc = "start"
    /\ LET opened == CliOpen(cli.fs, cli.image)
       IN  cli' =
             IF ~opened.ok THEN CliFinish(cli, CliOuterExcept(opened))
             ELSE IF ~cli.pil.ok
             THEN CliFinish(cli, Ok(CliError("Invalid image format: " \o cli.pil.msg)))
             ELSE [cli EXCEPT !.pc = "post",
                              !.call = CliPostCall(cli.query, b64encode(opened.v))]
    /\ UNCHANGED web

\* Step 4: requests.post sends the request and blocks.
CliPost ==
    /\ cli.pc = "post"
    /\ cli' = [cli EXCEPT !.pc = "wait", !.posts = @ + 1]
    /\ UNCHANGED web

\* requests.post returns or raises; step 5 and the except clauses.
CliRespond(rm, jsonErrIsRequestException) ==
    /\ cli.pc = "wait"
    /\ LET res == Then(RequestsPost(rm), LAMBDA response : CliProcessResponse(response))
       IN  cli' = CliFinish([cli EXCEPT !.remote = rm],
                            CliOuterExcept(CliInnerExcept(res, jsonErrIsRequestException)))
    /\ UNCHANGED web

\* The __main__ block prints the returned result.
CliPrint ==
    /\ cli.pc = "returned"
    /\ cli' = [cli EXCEPT !.pc = "done", !.stdout = CliPrinted(cli.result)]
    /\ UNCHANGED web

\* The script's process ends; a later run starts from nothing.
CliExit ==
    /\ cli.pc = "done"
    /\ cli' = CliIdle
    /\ UNCHANGED web

\* --------------------------------------------------------- specifications
Init ==
    /\ web = [r \in Reqs |-> WebIdle]
    /\ cli = CliIdle

WebNext(r) ==
    \/ \E bytes \in Images, q \in Queries :
          \E pil \in PilOutcomes(bytes) : WebReceive(r, bytes, pil, q)
    \/ WebValidate(r)
    \/ WebPost(r)
    \/ \E rm \in Remotes : WebRespond(r, rm)
    \/ WebClose(r)

CliNext ==
    \/ \E file \in Files, q \in Queries :
          \E pil \in PilOutcomes(file.bytes) : CliStart(file, pil, q)
    \/ CliValidate
    \/ CliPost
    \/ \E rm \in Remotes, b \in BOOLEAN : CliRespond(rm, b)
    \/ CliPrint
    \/ CliExit

\* One web request and one run of the script, in any interleaving.
Next == WebNext(1) \/ CliNext

Spec == Init /\ [][Next]_vars

\* The remote behaviours drawn when several requests run at once.
ConcRemotes ==
    { [kind |-> "timeout", msg |-> "Read timed out. (read timeout=30)"],
      [kind |-> "response", status |-> 200, body |-> ChoicesBody(JStr("X"))],
      [kind |-> "response", status |-> 200, body |-> ChoicesBody(JStr(""))],
      [kind |-> "response", status |-> 200, body |-> RawBody],
      [kind |-> "response", status |-> 404,
       body |-> ErrorBody(JObj("message" :> JStr("model not found")))],
      [kind |-> "response", status |-> 429,
       body |-> ErrorBody(JObj("message" :> JStr("rate limit reached")))] }

ConcImages == { <<>>, <<71>>, <<137, 80>> }

\* Several /upload_and_query requests in progress at once, in any interleaving.
ConcNext ==
    \E r \in Reqs :
        \/ \E bytes \in ConcImages, q \in Queries :
              \E pil \in PilOutcomes(bytes) : WebReceive(r, bytes, pil, q)
        \/ WebValidate(r)
        \/ WebPost(r)
        \/ \E rm \in ConcRemotes : WebRespond(r, rm)
        \/ WebClose(r)

SpecConc == Init /\ [][ConcNext]_vars

\* The handler as a function of one request's own inputs.
WebOutcome(image_content, pil, rm) ==
    LET checked == WebCheckImage(image_content, pil)
    IN  IF ~checked.ok THEN FastAPIResponse(WebOuterExcept(checked))
        ELSE FastAPIResponse(WebOuterExcept(
                 Then(RequestsPost(rm), LAMBDA response : WebProcessResponse(response))))

\* ------------------------------------------------------------- properties
StartsWith(s, prefix) ==
    Len(s) >= Len(prefix) /\ SubSeq(s, 1, Len(prefix)) = prefix

Contains(s, sub) ==
    \E i \in 1..(Len(s) - Len(sub) + 1) : SubSeq(s, i, i + Len(sub) - 1) = sub

WebFailed(r) == web[r].pc = "done" /\ "detail" \in DOMAIN web[r].resp.body

WebDetail(r) == web[r].resp.body["detail"].s

CliReturned == cli.pc \in {"returned", "done"}

CliFailed == CliReturned /\ "error" \in DOMAIN cli.result

CliMessage == cli.result["error"].s

BadImage(image_content, pil) == image_content = <<>> \/ ~pil.ok

\* The upstream answered a non-200 status with a JSON body carrying error.message.
HasUpstreamMessage(rm) ==
    /\ rm.kind = "response"
    /\ rm.status # 200
    /\ rm.body.t = "obj"
    /\ "error" \in DOMAIN rm.body.m
    /\ rm.body.m["error"].t = "obj"
    /\ "message" \in DOMAIN rm.body.m["error"].m
    /\ rm.body.m["error"].m["message"].t = "str"

UpstreamMessage(rm) == rm.body.m["error"].m["message"].s

\* The upstream answered 200 with a body whose choices[0].message.content exists.
HasContent(rm) ==
    /\ rm.kind = "response"
    /\ rm.status = 200
    /\ \E c \in Contents : rm.body = ChoicesBody(c)

UpstreamContent(rm) == rm.body.m["choices"].items[1].m["message"].m["content"]

\* C1: in both front-ends an image payload that is empty or fails the
\* open-and-verify check ends the invocation in a validation failure with no
\* POST issued; a POST is issued only for a non-empty, verified payload.
C1_NoPostOnBadImage ==
    /\ \A r \in Reqs :
        /\ web[r].posts > 0 => ~BadImage(web[r].image, web[r].pil)
        /\ (web[r].pc # "idle" /\ BadImage(web[r].image, web[r].pil)) =>
              /\ web[r].pc \in {"start", "done"}
              /\ web[r].posts = 0
              /\ web[r].pc = "done" => WebFailed(r) /\ web[r].resp.status = 400
    /\ cli.posts > 0 => cli.fs = "ok" /\ ~BadImage(cli.image, cli.pil)
    /\ (cli.pc # "idle" /\ cli.fs = "ok" /\ BadImage(cli.image, cli.pil)) =>
          /\ cli.pc \in {"start", "returned", "done"}
          /\ cli.posts = 0
          /\ CliReturned => CliFailed /\ StartsWith(CliMessage, "Invalid image format: ")

C1_Witness ==
    /\ web[1].pc = "done" /\ web[1].image # <<>> /\ ~web[1].pil.ok
    /\ web[1].resp.status = 400 /\ web[1].posts = 0
    /\ cli.pc = "returned" /\ cli.fs = "ok" /\ cli.image = <<>> /\ cli.posts = 0

\* C2: POST /upload_and_query answers an empty upload or an unverifiable image
\* with status 400 (not rewritten to 500), and a timeout, another transport
\* failure or any unexpected exception with status 500 and detail
\* "Internal Server Error: <message>".
C2_WebStatusMapping ==
    \A r \in Reqs : web[r].pc = "done" =>
        LET w == web[r]
            processed == Then(RequestsPost(w.remote),
                              LAMBDA response : WebProcessResponse(response))
        IN  /\ w.image = <<>> =>
                  w.resp = JSONResponse(400, "detail", JStr("Empty file uploaded."))
            /\ (w.image # <<>> /\ ~w.pil.ok) =>
                  w.resp = JSONResponse(400, "detail",
                                        JStr("Invalid image format: " \o w.pil.msg))
            /\ w.remote.kind \in {"timeout", "transport"} =>
                  w.resp = JSONResponse(500, "detail",
                                        JStr("Internal Server Error: " \o w.remote.msg))
            /\ (w.remote.kind = "response" /\ ~processed.ok
                    /\ processed.exc # "HTTPException") =>
                  w.resp = JSONResponse(500, "detail",
                                        JStr("Internal Server Error: " \o processed.msg))

C2_Witness ==
    /\ web[1].pc = "done"
    /\ web[1].remote.kind = "timeout"
    /\ web[1].resp.status = 500

\* C3: for every upstream response whose status is not 200, whatever its body,
\* the web endpoint answers with the upstream's status and detail
\* "Groq API Error: <message>", <message> being the upstream error message when
\* present and a fallback label otherwise.
C3_UpstreamPassthrough ==
    \A r \in Reqs :
        (web[r].pc = "done" /\ web[r].remote.kind = "response"
             /\ web[r].remote.status # 200) =>
            /\ web[r].resp.status = web[r].remote.status
            /\ WebFailed(r)
            /\ IF HasUpstreamMessage(web[r].remote)
               THEN WebDetail(r) = "Groq API Error: " \o UpstreamMessage(web[r].remote)
               ELSE StartsWith(WebDetail(r), "Groq API Error: ")

\* C4: in both front-ends, a non-200 upstream answer with a JSON body carrying
\* error.message yields a failure that carries the upstream status and a
\* message containing the upstream's error message.
C4_UpstreamMessageCarried ==
    /\ \A r \in Reqs :
        (web[r].pc = "done" /\ HasUpstreamMessage(web[r].remote)) =>
            /\ WebFailed(r)
            /\ web[r].resp.status = web[r].remote.status
            /\ Contains(WebDetail(r), UpstreamMessage(web[r].remote))
    /\ (CliReturned /\ HasUpstreamMessage(cli.remote)) =>
            /\ CliFailed
            /\ Contains(CliMessage, ToString(cli.remote.status))
            /\ Contains(CliMessage, UpstreamMessage(cli.remote))

\* C5: in both front-ends, for a valid image and any query, an upstream answer
\* of 200 whose choices[0].message.content is X makes the invocation succeed
\* with a one-entry mapping from the model identifier to X, unmodified.
C5_AnswerReturned ==
    /\ \A r \in Reqs :
        (web[r].pc = "done" /\ HasContent(web[r].remote)) =>
            web[r].resp = JSONResponse(200, VISION_MODEL, UpstreamContent(web[r].remote))
    /\ (CliReturned /\ HasContent(cli.remote)) =>
            /\ DOMAIN cli.result = {VISION_MODEL}
            /\ cli.result[VISION_MODEL] = UpstreamContent(cli.remote)

\* C6: every invocation issues at most one POST; once the POST has had its
\* outcome (response, timeout, transport failure) the invocation is over and
\* no further POST is issued in it.
C6_AtMostOnePost ==
    /\ \A r \in Reqs :
        /\ web[r].posts <= 1
        /\ web[r].remote.kind # "none" => web[r].pc = "done" /\ web[r].posts = 1
    /\ cli.posts <= 1
    /\ cli.remote.kind # "none" => CliReturned /\ cli.posts = 1

C6_Witness ==
    /\ web[1].pc = "done" /\ web[1].posts = 1 /\ web[1].remote.kind = "timeout"
    /\ cli.pc = "done" /\ cli.posts = 1 /\ cli.remote.kind = "transport"

\* C7 as stated: after a timeout the invocation ends with a failure of the
\* timeout kind, whose message says the request timed out and which differs
\* from every failure reported for another transport error; the latter is
\* reported as a network error.
C7_TimeoutDistinguished ==
    /\ (CliReturned /\ cli.remote.kind = "timeout") =>
            CliFailed /\ CliMessage = "Request timed out."
    /\ (CliReturned /\ cli.remote.kind = "transport") =>
            CliFailed /\ StartsWith(CliMessage, "Network error: ")
    /\ \A r \in Reqs :
        /\ (web[r].pc = "done" /\ web[r].remote.kind = "timeout") =>
              /\ WebFailed(r)
              /\ \A rm \in Remotes : rm.kind = "transport" =>
                    web[r].resp # WebOutcome(web[r].image, web[r].pil, rm)
        /\ (web[r].pc = "done" /\ web[r].remote.kind = "transport") =>
              WebFailed(r) /\ StartsWith(WebDetail(r), "Network error: ")

\* C7 amended: after a timeout the invocation ends with a failure. process_image
\* reports "Request timed out.", and "Network error: <text>" for another
\* transport error; the web endpoint reports both as status 500 with detail
\* "Internal Server Error: <exception text>", with no timeout kind of its own.
C7_TimeoutReported ==
    /\ (cli.remote.kind = "timeout") =>
            CliReturned /\ cli.result = CliError("Request timed out.")
    /\ (cli.remote.kind = "transport") =>
            CliReturned /\ cli.result = CliError("Network error: " \o cli.remote.msg)
    /\ \A r \in Reqs :
        web[r].remote.kind \in {"timeout", "transport"} =>
            /\ web[r].pc = "done"
            /\ web[r].resp = JSONResponse(500, "detail",
                                 JStr("Internal Server Error: " \o web[r].remote.msg))

C7_Witness ==
    /\ cli.pc = "returned" /\ cli.remote.kind = "timeout"
    /\ web[1].pc = "done" /\ web[1].remote.kind = "timeout"

\* C8: every invocation of process_image returns, without raising, a mapping
\* that holds either the model-identifier key or the 'error' key, never both
\* and never neither; the script prints the answer block for the former and
\* "Operation failed with error: <message>" for the latter.
C8_CliTaggedResult ==
    /\ cli.pc # "crashed"
    /\ CliReturned =>
          /\ DOMAIN cli.result \in { {VISION_MODEL}, {"error"} }
          /\ cli.posts = 0 => "error" \in DOMAIN cli.result
    /\ cli.pc = "done" =>
          cli.stdout =
             IF VISION_MODEL \in DOMAIN cli.result
             THEN << "\n--- Groq Vision API Response ---",
                     "Model: " \o VISION_MODEL,
                     "Answer:\n" \o cli.result[VISION_MODEL].s,
                     "--------------------------------\n" >>
             ELSE << "\n--- Groq Vision API Response ---",
                     "Operation failed with error: " \o cli.result["error"].s,
                     "--------------------------------\n" >>

C8_Witness ==
    /\ cli.pc = "done"
    /\ cli.remote.kind = "response" /\ cli.remote.status = 200
    /\ "error" \in DOMAIN cli.result
    /\ Len(cli.stdout) = 3

\* C9: with several /upload_and_query requests in progress in any interleaving,
\* each request's outbound payload carries its own query and its own image, and
\* its response is the one its own image and the remote answer to its own POST
\* determine.
C9_RequestsIndependent ==
    \A r \in Reqs :
        LET w == web[r]
        IN  /\ (w.pc \in {"post", "wait"} \/ (w.pc = "done" /\ w.posts = 1)) =>
                  /\ Len(w.call.json.messages) = 1
                  /\ w.call.json.messages[1].content[1].text = w.query
                  /\ w.call.json.messages[1].content[2].image_url.url
                        = "data:image/jpeg;base64," \o b64encode(w.image)
            /\ w.pc = "done" => w.resp = WebOutcome(w.image, w.pil, w.remote)

C9_Witness ==
    /\ web[1].pc = "done" /\ web[2].pc = "done"
    /\ web[1].posts = 1 /\ web[2].posts = 1
    /\ web[1].query # web[2].query
    /\ web[1].image # web[2].image
    /\ web[1].resp.status = 200 /\ web[2].resp.status = 200
    /\ web[1].resp # web[2].resp

\* C10: for the same image bytes, query and remote behaviour, the web endpoint
\* returns 200 with the model-keyed answer exactly when process_image returns
\* the model-keyed answer, a non-200 status exactly when process_image returns
\* an 'error' entry, and both hand requests.post the same payload.
C10_FrontEndsAgree ==
    (/\ web[1].pc = "done" /\ CliReturned /\ cli.fs = "ok"
     /\ web[1].image = cli.image /\ web[1].pil = cli.pil
     /\ web[1].query = cli.query /\ web[1].remote = cli.remote)
    =>  /\ web[1].resp.status = 200 <=> VISION_MODEL \in DOMAIN cli.result
        /\ VISION_MODEL \in DOMAIN cli.result => web[1].resp.body = cli.result
        /\ web[1].resp.status # 200 <=> "error" \in DOMAIN cli.result
        /\ web[1].call = cli.call

====
